---- MODULE Spec2Model ----
\* A model of the todo-go repository: the Store Access functions Add, Update,
\* Delete and AllList over the todos table, and the gin handlers that call them.
EXTENDS Integers, Sequences, FiniteSets, TLC

\* ---------------------------------------------------------------- bounds
\* The largest value the id sequence of the todos table may hand out.
MaxId == 2
\* The largest reading of the clock (time.Now()).
MaxClock == 1
\* The largest number of frames of showPrompt on the stack.
MaxDepth == 4

\* ---------------------------------------------------------------- values
\* The (title, description, is_done) of the request bodies that are sent.
Payloads == {<<"Buy milk", "2%", FALSE>>, <<"Walk dog", "whole", TRUE>>}

\* A nil error, sql.ErrNoRows, and the errors the driver can return.
Nil == "nil"
ErrNoRows == "sql: no rows in result set"
DriverErrs == {"driver: bad connection"}
\* The errors c.ShouldBindJSON can return on a body that does not parse.
BindErrs == {"EOF", "invalid character"}

StatusOK == 200
StatusBadRequest == 400
StatusNotFound == 404
StatusInternalServerError == 500

\* The Todo struct, as far as Add, Update and Delete read it.
Todo(id, title, description, isDone) ==
    [ID |-> id, Title |-> title, Description |-> description, IsDone |-> isDone]

\* The zero value of Todo (var todoInput Todo).
ZeroTodo == Todo(0, "", "", FALSE)

\* The bodies that bind to a Todo.
TodoInputs ==
    {Todo(i, p[1], p[2], p[3]) : i \in 0..MaxId, p \in Payloads}

VARIABLES
    todos,  \* the rows of the todos table
    seq,    \* the last value handed out by the id sequence of the table
    now,    \* the last reading of the clock
    call,   \* the last Store Access call and what it returned
    req,    \* the last HTTP request
    resp,   \* the c.JSON writes of the handler of the last request, in order
    boot,   \* the entry point: its variant, where main is, the handle, the log
    menu,   \* the menu loop of the interactive variant
    race    \* two requests in flight on the shared handle

vars == <<todos, seq, now, call, req, resp, boot, menu, race>>

\* ---------------------------------------------------------------- the table
Ids(t) == {r.id : r \in t}

\* WHERE id=$n
Matching(t, id) == {r \in t : r.id = id}

\* res.RowsAffected()
RowsAffected(t, id) == Cardinality(Matching(t, id))

\* Variant of InsertRow: passes todo.IsDone as $3 instead of false.
InsertRowIsDoneFromInput(todo, id, t1, t2) ==
    [id |-> id, title |-> todo.Title, description |-> todo.Description,
     is_done |-> todo.IsDone, created_at |-> t1, updated_at |-> t2]

\* Variant of UpdateRows: the two time arguments in the other order.
UpdateRowsTimesSwapped(t, todo, t1, t2) ==
    (t \ Matching(t, todo.ID)) \cup
        {[r EXCEPT !.title = todo.Title, !.description = todo.Description,
                   !.is_done = todo.IsDone, !.created_at = t2, !.updated_at = t1]
            : r \in Matching(t, todo.ID)}

\* INSERT INTO todos (title, description, is_done, created_at, updated_at)
\* VALUES ($1, $2, $3, $4, $5) with the arguments Add passes.
InsertRow(todo, id, t1, t2) ==
    [id |-> id, title |-> todo.Title, description |-> todo.Description,
     is_done |-> FALSE, created_at |-> t1, updated_at |-> t2]

\* Variant of UpdateRows: inserts the row when no row matches.
UpdateRowsUpsert(t, todo, t1, t2) ==
    (t \ Matching(t, todo.ID)) \cup
        {[id |-> todo.ID, title |-> todo.Title, description |-> todo.Description,
          is_done |-> todo.IsDone, created_at |-> t1, updated_at |-> t2]}

\* Variant of UpdateRows: the statement without its WHERE clause.
UpdateRowsNoWhere(t, todo, t1, t2) ==
    {[r EXCEPT !.title = todo.Title, !.description = todo.Description,
               !.is_done = todo.IsDone, !.created_at = t1, !.updated_at = t2]
        : r \in t}

\* UPDATE todos SET title=$1, description=$2, is_done=$3, created_at=$4,
\* updated_at=$5 WHERE id=$6 with the arguments Update passes.
UpdateRows(t, todo, t1, t2) ==
    (t \ Matching(t, todo.ID)) \cup
        {[r EXCEPT !.title = todo.Title, !.description = todo.Description,
                   !.is_done = todo.IsDone, !.created_at = t1, !.updated_at = t2]
            : r \in Matching(t, todo.ID)}

\* Variant of DeleteRows: a matching id empties the table.
DeleteRowsAll(t, id) == IF Matching(t, id) = {} THEN t ELSE {}

\* DELETE from todos WHERE id=$1
DeleteRows(t, id) == t \ Matching(t, id)

\* Variant of NextId: the sequence's current value, not its next.
NextIdCurrent(t, s) == IF s = 0 THEN 1 ELSE s

\* The value RETURNING id yields: the next value of the sequence.
NextId(t, s) == s + 1

\* ---------------------------------------------------------------- calls
NoRows == <<>>

Call(op, id, err, rows, isNil) ==
    [op |-> op, id |-> id, err |-> err, rows |-> rows, isNil |-> isNil]

NoCall == Call("none", 0, Nil, NoRows, TRUE)

\* ---------------------------------------------------------------- entry point
\* The *sql.DB handle: nil, or the handle sql.Open returned.
NilDB == "nil"
OpenDB == "*sql.DB"

\* What sql.Open and db.Ping can do.
ConnectOutcomes == {"open fails", "ping fails", "ok"}

\* main: pc is "main" before Connect, "serving" once router.Run serves the
\* routes, "prompting" once showPrompt was called, "aborted" after a panic.
Boot(variant, pc, db, logged, nilCalls) ==
    [variant |-> variant, pc |-> pc, db |-> db, logged |-> logged, nilCalls |-> nilCalls]

\* The menu loop: pc is "idle" while showPrompt was never called, "prompt"
\* when the menu is printed and fmt.Scan(&choice) waits, "returning" while the
\* frames of showPrompt return, "exited" when the outermost has returned and
\* "panicked" after a panic; depth counts the frames of showPrompt on the
\* stack, choice is the last choice read and out the lines the last step
\* printed.
Menu(pc, depth, choice, out) ==
    [pc |-> pc, depth |-> depth, choice |-> choice, out |-> out]

NoChoice == ""
MenuIdle == Menu("idle", 0, NoChoice, <<>>)

\* An UpdateTodoHandler and a DeleteTodoHandler in flight for the same id:
\* each is "idle", "bound" once its body is bound, "done" once its Store
\* Access call has returned updErr, delErr.
Race(id, todo, upd, del, updErr, delErr) ==
    [id |-> id, todo |-> todo, upd |-> upd, del |-> del,
     updErr |-> updErr, delErr |-> delErr]

\* No request in flight.
RaceIdle == Race(0, ZeroTodo, "idle", "idle", Nil, Nil)

\* The tables are empty and nothing has run.
StoreInit ==
    /\ todos = {}
    /\ seq = 0
    /\ now = 0
    /\ call = NoCall
    /\ req = [handler |-> "none", bindErr |-> Nil, todo |-> ZeroTodo]
    /\ resp = <<>>

\* The HTTP variant once main has connected and router.Run serves the routes.
Init ==
    /\ StoreInit
    /\ boot = Boot("api", "serving", OpenDB, TRUE, FALSE)
    /\ menu = MenuIdle
    /\ race = RaceIdle

\* ---------------------------------------------------------------- Store Access
\* Variant of RowsErr: the rows == 0 test is missing.
RowsErrAlwaysNil(rows) == Nil

\* rows, _ := res.RowsAffected(); if rows == 0 { return sql.ErrNoRows }; return nil
RowsErr(rows) == IF rows = 0 THEN ErrNoRows ELSE Nil

\* The orders in which a SELECT without ORDER BY may yield the rows of t.
Listings(t) ==
    {s \in [1..Cardinality(t) -> t] : \A i, j \in DOMAIN s : s[i] = s[j] => i = j}

\* Add: both time.Now() arguments are evaluated, left to right, before the
\* statement runs; the row gets the next value of the sequence as its id.
Add(todo, fail) ==
    IF fail # Nil
    THEN /\ \E t2 \in now..MaxClock : now' = t2
         /\ todos' = todos
         /\ seq' \in {seq, IF seq < MaxId THEN seq + 1 ELSE seq}
         /\ call' = Call("Add", 0, fail, NoRows, TRUE)
    ELSE /\ seq < MaxId
         /\ \E t1 \in now..MaxClock : \E t2 \in t1..MaxClock :
                /\ now' = t2
                /\ todos' = todos \cup {InsertRow(todo, NextId(todos, seq), t1, t2)}
         /\ seq' = NextId(todos, seq)
         /\ call' = Call("Add", NextId(todos, seq), Nil, NoRows, TRUE)

\* Update: both time.Now() arguments are evaluated, left to right, as for Add.
Update(todo, fail) ==
    /\ seq' = seq
    /\ IF fail # Nil
       THEN /\ \E t2 \in now..MaxClock : now' = t2
            /\ todos' = todos
            /\ call' = Call("Update", todo.ID, fail, NoRows, TRUE)
       ELSE /\ \E t1 \in now..MaxClock : \E t2 \in t1..MaxClock :
                /\ now' = t2
                /\ todos' = UpdateRows(todos, todo, t1, t2)
            /\ call' = Call("Update", todo.ID, RowsErr(RowsAffected(todos, todo.ID)),
                            NoRows, TRUE)

Delete(id, fail) ==
    /\ UNCHANGED <<seq, now>>
    /\ IF fail # Nil
       THEN /\ todos' = todos
            /\ call' = Call("Delete", id, fail, NoRows, TRUE)
       ELSE /\ todos' = DeleteRows(todos, id)
            /\ call' = Call("Delete", id, RowsErr(RowsAffected(todos, id)), NoRows, TRUE)

\* Variant of AllListResult: todos declared as var todos []Todo, nil until
\* the first append.
AllListResultNilWhenEmpty(order) ==
    Call("AllList", 0, Nil, order, order = <<>>)

\* todos := []Todo{}; every row appended; return todos, rows.Err()
AllListResult(order) == Call("AllList", 0, Nil, order, FALSE)

\* AllList: a failing db.Query or rows.Scan returns (nil, err); an error met by
\* rows.Next returns the rows appended so far together with rows.Err().
AllList(fail, at) ==
    /\ UNCHANGED <<todos, seq, now>>
    /\ IF fail = Nil
       THEN \E order \in Listings(todos) : call' = AllListResult(order)
       ELSE IF at = "query"
       THEN call' = Call("AllList", 0, fail, NoRows, TRUE)
       ELSE \E order \in Listings(todos) : \E k \in 0..Len(order) :
                call' = Call("AllList", 0, fail, SubSeq(order, 1, k), FALSE)

\* ---------------------------------------------------------------- Request Handlers
\* c.JSON(status, gin.H{"error": msg})
ErrorJSON(status, msg) ==
    [status |-> status, key |-> "error", text |-> msg, id |-> 0, todos |-> NoRows]

\* c.JSON(status, gin.H{"message": msg}) and gin.H{"message": msg, "id": id}
MessageJSON(status, msg, id) ==
    [status |-> status, key |-> "message", text |-> msg, id |-> id, todos |-> NoRows]

\* c.JSON(status, todos)
TodosJSON(status, rows) ==
    [status |-> status, key |-> "todos", text |-> "", id |-> 0, todos |-> rows]

\* Variant of throwErrorIfPresent: sql.ErrNoRows is not told apart.
throwErrorIfPresentAlways500(err) ==
    IF err # Nil
    THEN <<ErrorJSON(StatusInternalServerError, err)>>
    ELSE <<>>

\* throwErrorIfPresent: the writes it makes; it returns to the handler in
\* every case, and the handler goes on.
throwErrorIfPresent(err) ==
    IF err # Nil
    THEN IF err = ErrNoRows
         THEN <<ErrorJSON(StatusNotFound, "Todo not found")>>
         ELSE <<ErrorJSON(StatusInternalServerError, err)>>
    ELSE <<>>

Request(handler, bindErr, todo) ==
    [handler |-> handler, bindErr |-> bindErr, todo |-> todo]

\* Variant of BindFailed: the return after c.JSON is missing, and the handler
\* goes on with the zero value it failed to bind.
BindFailedNoReturn(handler, bindErr) ==
    /\ req' = Request(handler, bindErr, ZeroTodo)
    /\ IF handler = "AddTodoHandler" THEN \E fail \in DriverErrs \cup {Nil} : Add(ZeroTodo, fail)
       ELSE IF handler = "UpdateTodoHandler" THEN Update(ZeroTodo, Nil)
       ELSE Delete(0, Nil)
    /\ resp' = <<ErrorJSON(StatusBadRequest, bindErr)>> \o throwErrorIfPresent(call'.err)
                 \o <<MessageJSON(StatusOK, "", call'.id)>>

\* The branch every handler takes when c.ShouldBindJSON returns an error.
BindFailed(handler, bindErr) ==
    /\ req' = Request(handler, bindErr, ZeroTodo)
    /\ resp' = <<ErrorJSON(StatusBadRequest, bindErr)>>
    /\ call' = NoCall
    /\ UNCHANGED <<todos, seq, now>>

AddTodoHandler ==
    \/ \E e \in BindErrs : BindFailed("AddTodoHandler", e)
    \/ \E todo \in TodoInputs, fail \in DriverErrs \cup {Nil} :
        /\ req' = Request("AddTodoHandler", Nil, todo)
        /\ Add(todo, fail)
        /\ resp' = throwErrorIfPresent(call'.err)
                     \o <<MessageJSON(StatusOK, "Todo added successfully", call'.id)>>

UpdateTodoHandler ==
    \/ \E e \in BindErrs : BindFailed("UpdateTodoHandler", e)
    \/ \E todo \in TodoInputs, fail \in DriverErrs \cup {Nil} :
        /\ req' = Request("UpdateTodoHandler", Nil, todo)
        /\ Update(todo, fail)
        /\ resp' = throwErrorIfPresent(call'.err)
                     \o <<MessageJSON(StatusOK, "Todo updated successfully", 0)>>

DeleteTodoHandler ==
    \/ \E e \in BindErrs : BindFailed("DeleteTodoHandler", e)
    \/ \E id \in 0..MaxId, fail \in DriverErrs \cup {Nil} :
        /\ req' = Request("DeleteTodoHandler", Nil, Todo(id, "", "", FALSE))
        /\ Delete(id, fail)
        /\ resp' = throwErrorIfPresent(call'.err)
                     \o <<MessageJSON(StatusOK, "Todo deleted successfully", 0)>>

\* The points at which AllList can fail: db.Query or rows.Scan, and rows.Next.
FailPoints == {[fail |-> Nil, at |-> "none"]} \cup
              {[fail |-> e, at |-> a] : e \in DriverErrs, a \in {"query", "rows"}}

\* GetAllTodosHandler of the package main handlers.
GetAllTodosHandler ==
    \E f \in FailPoints :
        /\ req' = Request("GetAllTodosHandler", Nil, ZeroTodo)
        /\ AllList(f.fail, f.at)
        /\ resp' = throwErrorIfPresent(call'.err) \o <<TodosJSON(StatusOK, call'.rows)>>

\* GetAllTodosHandler of internal/handler: an empty list is answered by a message.
HandlerGetAllTodosHandler ==
    \E f \in FailPoints :
        /\ req' = Request("GetAllTodosHandler", Nil, ZeroTodo)
        /\ AllList(f.fail, f.at)
        /\ resp' = throwErrorIfPresent(call'.err) \o
                     (IF Len(call'.rows) = 0
                      THEN <<MessageJSON(StatusOK, "No todos found", 0)>>
                      ELSE <<TodosJSON(StatusOK, call'.rows)>>)

\* The status line of the response: the first c.JSON write sends the header,
\* and a later write cannot replace it.
ResponseStatus(writes) == writes[1].status

Next ==
    \/ AddTodoHandler /\ UNCHANGED <<boot, menu, race>>
    \/ UpdateTodoHandler /\ UNCHANGED <<boot, menu, race>>
    \/ DeleteTodoHandler /\ UNCHANGED <<boot, menu, race>>
    \/ GetAllTodosHandler /\ UNCHANGED <<boot, menu, race>>
    \/ HandlerGetAllTodosHandler /\ UNCHANGED <<boot, menu, race>>

Spec == Init /\ [][Next]_vars

\* ---------------------------------------------------------------- menu loop
\* What fmt.Scan(&choice) may find on standard input.
Tokens == {ToString(n) : n \in 0..6} \cup {"abc", "EOF"}

\* fmt.Scan(&choice): the token as an int, or an error and choice left 0.
ScanInt(tok) ==
    IF \E n \in 0..6 : ToString(n) = tok
    THEN [err |-> Nil, n |-> CHOOSE n \in 0..6 : ToString(n) = tok]
    ELSE [err |-> "expected integer", n |-> 0]

\* The lines showPrompt prints before it reads the choice.
MenuLines ==
    <<"1. Show All Todos", "2. Add Todo", "3. Update Todo", "4. Delete Todo",
      "5. Exit", "Enter your choice: ">>

\* showPrompt reads tok as choice n: the menu is printed and fmt.Scan waits.
Reads(tok, n) ==
    /\ menu.pc = "prompt"
    /\ ScanInt(tok).err = Nil
    /\ ScanInt(tok).n = n

\* showPrompt(db) called from showPrompt: one more frame, which prints the
\* menu and waits for the choice; printed holds the lines printed before it.
Recurse(tok, printed) ==
    /\ menu.depth < MaxDepth
    /\ menu' = Menu("prompt", menu.depth + 1, tok, printed \o MenuLines)

\* A frame of showPrompt returns to its caller: to the frame below, which
\* returns in turn, or to main.
Return(tok, printed) ==
    menu' = Menu(IF menu.depth = 1 THEN "exited" ELSE "returning",
                 menu.depth - 1, tok, printed)

\* Variant of ShowPromptUnreadable: the error is reported and showPrompt
\* returns without calling itself.
ShowPromptUnreadableReturns ==
    \E tok \in Tokens :
        /\ menu.pc = "prompt"
        /\ ScanInt(tok).err # Nil
        /\ Return(tok, <<"Invalid input. Please enter a number between 1 and 5.">>)
        /\ UNCHANGED <<todos, seq, now, call, req, resp, boot, race>>

\* showPrompt, err != nil: the choice could not be read.
ShowPromptUnreadable ==
    \E tok \in Tokens :
        /\ menu.pc = "prompt"
        /\ ScanInt(tok).err # Nil
        /\ Recurse(tok, <<"Invalid input. Please enter a number between 1 and 5.">>)
        /\ UNCHANGED <<todos, seq, now, call, req, resp, boot, race>>

\* showAllTodo: what it prints for what AllList returned.
ShowAllTodoLines(c) ==
    (IF c.err # Nil THEN <<c.err>> ELSE <<>>) \o
    (IF Len(c.rows) = 0
     THEN <<"No todos found">>
     ELSE <<"id | Title | Description | Is Done | Created At | Updated At">>
          \o [i \in 1..Len(c.rows) |-> c.rows[i].title]
          \o <<"-------------------------------">>)

\* showPrompt, case 1: showAllTodo(db).
ShowPromptList ==
    \E tok \in Tokens, f \in FailPoints :
        /\ Reads(tok, 1)
        /\ AllList(f.fail, f.at)
        /\ Recurse(tok, ShowAllTodoLines(call'))
        /\ UNCHANGED <<req, resp, boot, race>>

\* showPrompt, case 2: AddTodo(db), which reads a title and a description
\* and adds Todo{Title: title, Description: description}.
ShowPromptAdd ==
    \E tok \in Tokens, p \in Payloads, fail \in DriverErrs \cup {Nil} :
        /\ Reads(tok, 2)
        /\ Add(Todo(0, p[1], p[2], FALSE), fail)
        /\ Recurse(tok, IF call'.err # Nil
                        THEN <<"Error adding todo:">>
                        ELSE <<"Todo added with ID: %d">>)
        /\ UNCHANGED <<req, resp, boot, race>>

\* showPrompt, case 3: UpdateTodo(db), which panics.
ShowPromptUpdate ==
    \E tok \in Tokens :
        /\ Reads(tok, 3)
        /\ menu' = Menu("panicked", menu.depth, tok, <<"panic: unimplemented">>)
        /\ UNCHANGED <<todos, seq, now, call, req, resp, boot, race>>

\* showPrompt, case 4: DeleteTodo(db), which reads an id and deletes it.
ShowPromptDelete ==
    \E tok \in Tokens, id \in 0..MaxId, fail \in DriverErrs \cup {Nil} :
        /\ Reads(tok, 4)
        /\ Delete(id, fail)
        /\ Recurse(tok, IF call'.err = Nil THEN <<"Todo deleted successfully.">>
                        ELSE IF call'.err = ErrNoRows
                        THEN <<"No todo found with the given ID.">>
                        ELSE <<"Error deleting todo:">>)
        /\ UNCHANGED <<req, resp, boot, race>>

\* Variant of ShowPromptExit: the return of case 5 is missing, and the
\* switch is left for the showPrompt(db) after it.
ShowPromptExitNoReturn ==
    \E tok \in Tokens :
        /\ Reads(tok, 5)
        /\ Recurse(tok, <<"Exiting...">>)
        /\ UNCHANGED <<todos, seq, now, call, req, resp, boot, race>>

\* showPrompt, case 5: Exiting... and return.
ShowPromptExit ==
    \E tok \in Tokens :
        /\ Reads(tok, 5)
        /\ Return(tok, <<"Exiting...">>)
        /\ UNCHANGED <<todos, seq, now, call, req, resp, boot, race>>

\* showPrompt, default: the choice is no case of the switch.
ShowPromptDefault ==
    \E tok \in Tokens, n \in {0, 6} :
        /\ Reads(tok, n)
        /\ Recurse(tok, <<"Invalid choice. Please try again.">>)
        /\ UNCHANGED <<todos, seq, now, call, req, resp, boot, race>>

\* The frame below returns: after the showPrompt(db) it called, showPrompt
\* has only a return, or its end, left.
ShowPromptReturn ==
    /\ menu.pc = "returning"
    /\ Return(menu.choice, <<>>)
    /\ UNCHANGED <<todos, seq, now, call, req, resp, boot, race>>

\* The interactive variant once main has connected and called showPrompt.
InitMenu ==
    /\ StoreInit
    /\ boot = Boot("cli", "prompting", OpenDB, TRUE, FALSE)
    /\ menu = Menu("prompt", 1, NoChoice, MenuLines)
    /\ race = RaceIdle

NextMenu ==
    \/ ShowPromptUnreadable
    \/ ShowPromptList
    \/ ShowPromptAdd
    \/ ShowPromptUpdate
    \/ ShowPromptDelete
    \/ ShowPromptExit
    \/ ShowPromptDefault
    \/ ShowPromptReturn

SpecMenu == InitMenu /\ [][NextMenu]_vars

\* ---------------------------------------------------------------- bootstrap
\* Connect of database/db.go: (db, nil) after the confirmation is printed, or
\* (nil, err) when sql.Open or db.Ping fails.
Connect(outcome) ==
    IF outcome = "open fails"
    THEN [db |-> NilDB, err |-> "failed to connect database", logged |-> FALSE]
    ELSE IF outcome = "ping fails"
    THEN [db |-> NilDB, err |-> "failed to ping database", logged |-> FALSE]
    ELSE [db |-> OpenDB, err |-> Nil, logged |-> TRUE]

\* main of cmd/api: initDb stores what Connect returned in sqlDb and, on an
\* error, prints it and returns; main then builds the routes and runs the
\* router.
MainApi ==
    /\ boot.variant = "api" /\ boot.pc = "main"
    /\ \E o \in ConnectOutcomes :
        boot' = Boot("api", "serving", Connect(o).db, Connect(o).logged, FALSE)
    /\ UNCHANGED <<todos, seq, now, call, req, resp, menu, race>>

\* main of the interactive variant: its Connect panics when sql.Open or
\* db.Ping fails, and otherwise prints the confirmation and returns the
\* handle, with which main calls showPrompt.
MainCli ==
    /\ boot.variant = "cli" /\ boot.pc = "main"
    /\ \E o \in ConnectOutcomes :
        IF o = "ok"
        THEN /\ boot' = Boot("cli", "prompting", OpenDB, TRUE, FALSE)
             /\ menu' = Menu("prompt", 1, NoChoice, MenuLines)
        ELSE /\ boot' = Boot("cli", "aborted", NilDB, FALSE, FALSE)
             /\ menu' = menu
    /\ UNCHANGED <<todos, seq, now, call, req, resp, race>>

\* The Store Access function each handler calls.
StoreFunction(handler) ==
    IF handler = "AddTodoHandler" THEN "Add"
    ELSE IF handler = "UpdateTodoHandler" THEN "Update"
    ELSE IF handler = "DeleteTodoHandler" THEN "Delete"
    ELSE "AllList"

\* A request served while the handle is nil: the handler passes the nil
\* handle to its Store Access function, whose use of it panics before any
\* statement is sent; the handler writes nothing.
ServeWithNilHandle ==
    /\ boot.pc = "serving" /\ boot.db = NilDB
    /\ \E h \in {"AddTodoHandler", "UpdateTodoHandler", "DeleteTodoHandler",
                 "GetAllTodosHandler"} :
        /\ req' = Request(h, Nil, ZeroTodo)
        /\ call' = Call(StoreFunction(h), 0, "nil pointer dereference", NoRows, TRUE)
    /\ resp' = <<>>
    /\ boot' = [boot EXCEPT !.nilCalls = TRUE]
    /\ UNCHANGED <<todos, seq, now, menu, race>>

\* Either variant, before main has run.
InitBoot ==
    /\ StoreInit
    /\ boot \in {Boot(v, "main", NilDB, FALSE, FALSE) : v \in {"api", "cli"}}
    /\ menu = MenuIdle
    /\ race = RaceIdle

Serving == boot.pc = "serving" /\ boot.db = OpenDB

NextBoot ==
    \/ MainApi
    \/ MainCli
    \/ ServeWithNilHandle
    \/ Serving /\ AddTodoHandler /\ UNCHANGED <<boot, menu, race>>
    \/ Serving /\ UpdateTodoHandler /\ UNCHANGED <<boot, menu, race>>
    \/ Serving /\ DeleteTodoHandler /\ UNCHANGED <<boot, menu, race>>
    \/ Serving /\ GetAllTodosHandler /\ UNCHANGED <<boot, menu, race>>
    \/ Serving /\ HandlerGetAllTodosHandler /\ UNCHANGED <<boot, menu, race>>
    \/ boot.pc = "prompting" /\ NextMenu

SpecBoot == InitBoot /\ [][NextBoot]_vars

\* ---------------------------------------------------------------- two requests
\* An update and a delete of the same row arrive and their bodies are bound.
RaceStart ==
    /\ race = RaceIdle
    /\ \E todo \in TodoInputs :
        /\ todo.ID \in Ids(todos)
        /\ race' = Race(todo.ID, todo, "bound", "bound", Nil, Nil)
    /\ UNCHANGED <<todos, seq, now, call, req, resp, boot, menu>>

\* UpdateTodoHandler of the one request calls Update: one statement.
RaceUpdate ==
    /\ race.upd = "bound"
    /\ \E fail \in DriverErrs \cup {Nil} : Update(race.todo, fail)
    /\ race' = [race EXCEPT !.upd = "done", !.updErr = call'.err]
    /\ UNCHANGED <<req, resp, boot, menu>>

\* DeleteTodoHandler of the other request calls Delete: one statement.
RaceDelete ==
    /\ race.del = "bound"
    /\ \E fail \in DriverErrs \cup {Nil} : Delete(race.id, fail)
    /\ race' = [race EXCEPT !.del = "done", !.delErr = call'.err]
    /\ UNCHANGED <<req, resp, boot, menu>>

\* Rows are added until the two requests arrive.
NextRace ==
    \/ race = RaceIdle /\ AddTodoHandler /\ UNCHANGED <<boot, menu, race>>
    \/ RaceStart
    \/ RaceUpdate
    \/ RaceDelete

SpecRace == Init /\ [][NextRace]_vars

\* ---------------------------------------------------------------- properties
Range(s) == {s[i] : i \in DOMAIN s}

BodyHandlers == {"AddTodoHandler", "UpdateTodoHandler", "DeleteTodoHandler"}

\* The store ran the statement of the call this step made: the driver
\* returned no error of its own.
Executed(c) == c.err \notin DriverErrs

\* C1: a successful Create adds exactly one row to what ListAll returns: the
\* listing after it is one longer than the listing before it, the new row has
\* the returned id, the title and description of the input and is_done = false
\* whatever is_done and id the input carries, and the rows listed before are
\* all listed unchanged.
C1_CreateAddsOneRow ==
    [][(call'.op = "Add" /\ call'.err = Nil) =>
        \A before \in Listings(todos) : \A after \in Listings(todos') :
            /\ Len(after) = Len(before) + 1
            /\ \E i \in DOMAIN after :
                /\ after[i].id = call'.id
                /\ after[i].title = req'.todo.Title
                /\ after[i].description = req'.todo.Description
                /\ after[i].is_done = FALSE
                /\ after[i] \notin Range(before)
                /\ {after[j] : j \in DOMAIN after \ {i}} = Range(before)]_vars

C1_Witness ==
    /\ call.op = "Add" /\ call.err = Nil
    /\ req.todo.IsDone /\ req.todo.ID # 0
    /\ Cardinality(todos) >= 2
    /\ \E r \in todos : r.id = call.id /\ r.title = req.todo.Title /\ ~r.is_done

\* C2: a successful UpdateByID leaves created_at of the row as it was.
C2_UpdateKeepsCreatedAt ==
    [][(call'.op = "Update" /\ call'.err = Nil) =>
        \A r \in todos : \A u \in todos' :
            r.id = u.id => u.created_at = r.created_at]_vars

\* C3: UpdateByID of an id no row has leaves the table as it was and never
\* reports success: it returns sql.ErrNoRows whenever the statement was run.
C3_UpdateMissingIsNotFound ==
    [][(call'.op = "Update" /\ call'.id \notin Ids(todos)) =>
        /\ todos' = todos
        /\ call'.err # Nil
        /\ Executed(call') => call'.err = ErrNoRows]_vars

C3_Witness ==
    /\ call.op = "Update" /\ call.err = ErrNoRows
    /\ call.id \notin Ids(todos)
    /\ todos # {}

\* C4: DeleteByID of an id no row has leaves the table as it was and never
\* reports success: it returns sql.ErrNoRows whenever the statement was run.
C4_DeleteMissingIsNotFound ==
    [][(call'.op = "Delete" /\ call'.id \notin Ids(todos)) =>
        /\ todos' = todos
        /\ call'.err # Nil
        /\ Executed(call') => call'.err = ErrNoRows]_vars

C4_Witness ==
    /\ call.op = "Delete" /\ call.err = ErrNoRows
    /\ call.id \notin Ids(todos)
    /\ todos # {}

\* C5: DeleteByID of an id a row has, once the statement was run, returns nil
\* and removes that row only: no listing afterwards holds the id, and every
\* listing holds exactly the other rows, unchanged.
C5_DeleteRemovesExactlyThatRow ==
    [][(call'.op = "Delete" /\ call'.id \in Ids(todos) /\ Executed(call')) =>
        /\ call'.err = Nil
        /\ \A after \in Listings(todos') :
            /\ \A i \in DOMAIN after : after[i].id # call'.id
            /\ Range(after) = {r \in todos : r.id # call'.id}]_vars

C5_Witness ==
    /\ call.op = "Delete" /\ call.err = Nil
    /\ call.id \notin Ids(todos)
    /\ todos # {}

\* C6: UpdateByID of an id a row has, once the statement was run, returns nil,
\* gives that row the title, description and is_done of the input and the
\* current time as updated_at, which is not earlier than the updated_at it had;
\* the row keeps its id, every other row is unchanged, and no row is added or
\* removed.
C6_UpdateSetsFields ==
    [][(call'.op = "Update" /\ call'.id \in Ids(todos) /\ Executed(call')) =>
        /\ call'.err = Nil
        /\ Ids(todos') = Ids(todos)
        /\ Cardinality(todos') = Cardinality(todos)
        /\ \A r \in todos : r.id # call'.id => r \in todos'
        /\ \A u \in todos' : u.id = call'.id =>
            /\ u.title = req'.todo.Title
            /\ u.description = req'.todo.Description
            /\ u.is_done = req'.todo.IsDone
            /\ u.updated_at = now'
            /\ now' >= now
            /\ \A r \in todos : r.id = u.id => u.updated_at >= r.updated_at]_vars

C6_Witness ==
    /\ call.op = "Update" /\ call.err = Nil
    /\ Cardinality(todos) >= 2
    /\ \E u \in todos : u.id = call.id /\ u.is_done /\ u.updated_at = now /\ now > 0

\* C7: ListAll, once the query was run, returns no error and exactly the rows
\* of the table, each once, in a slice that is not nil, and leaves the table
\* as it was; on an empty table the slice is empty and not nil.
C7_ListAllReturnsTheRows ==
    [][(call'.op = "AllList" /\ Executed(call')) =>
        /\ call'.err = Nil
        /\ todos' = todos
        /\ ~call'.isNil
        /\ Len(call'.rows) = Cardinality(todos)
        /\ Range(call'.rows) = todos
        /\ (todos = {} => call'.rows = <<>>)]_vars

C7_Witness ==
    /\ call.op = "AllList" /\ call.err = Nil
    /\ todos = {} /\ call.rows = <<>> /\ ~call.isNil
    /\ seq > 0

\* C8: no two rows share an id; the id a Create returns is the id of no row
\* present before it; and no step changes the id of a row: only a Create adds
\* an id, only a Delete removes one, and an Update keeps the set of ids and the
\* number of rows.
C8_IdsUniqueAndImmutable ==
    [][/\ \A r, u \in todos' : r.id = u.id => r = u
       /\ (call'.op = "Add" /\ call'.err = Nil) =>
            /\ call'.id \notin Ids(todos)
            /\ Ids(todos') = Ids(todos) \cup {call'.id}
       /\ ~(call'.op = "Add" /\ call'.err = Nil) => Ids(todos') \subseteq Ids(todos)
       /\ call'.op # "Delete" => Ids(todos) \subseteq Ids(todos')
       /\ call'.op = "Update" => Cardinality(todos') = Cardinality(todos)]_vars

C8_Witness ==
    /\ call.op = "Add" /\ call.err = Nil
    /\ call.id > Cardinality(todos)
    /\ \E r \in todos : r.id = call.id

\* C9: when the body of an add, update or delete request does not bind, the
\* handler writes one response, status 400 with the bind error's message, calls
\* no Store Access function and leaves the table and its sequence as they were.
C9_BindFailureIs400 ==
    [][(req'.handler \in BodyHandlers /\ req'.bindErr # Nil) =>
        /\ resp' = <<ErrorJSON(StatusBadRequest, req'.bindErr)>>
        /\ call' = NoCall
        /\ todos' = todos
        /\ seq' = seq]_vars

C9_Witness ==
    /\ req.handler = "UpdateTodoHandler" /\ req.bindErr \in BindErrs
    /\ ResponseStatus(resp) = StatusBadRequest
    /\ todos # {}

\* C10: when the body of an add, update or delete request binds, the status
\* of the response follows what the Store Access call returned: sql.ErrNoRows,
\* which only an update or a delete returns, gives 404; any other error gives
\* 500 with the error's message; and the status is 200 exactly when the call
\* returned nil, the response then being the success body alone.
C10_StatusFollowsStoreOutcome ==
    (req.handler \in BodyHandlers /\ req.bindErr = Nil) =>
        /\ call.err = ErrNoRows =>
            /\ call.op \in {"Update", "Delete"}
            /\ ResponseStatus(resp) = StatusNotFound
        /\ call.err \notin {Nil, ErrNoRows} =>
            /\ ResponseStatus(resp) = StatusInternalServerError
            /\ resp[1].key = "error" /\ resp[1].text = call.err
        /\ call.err = Nil <=> ResponseStatus(resp) = StatusOK
        /\ ResponseStatus(resp) = StatusOK =>
            /\ Len(resp) = 1
            /\ resp[1].key = "message"
            /\ resp[1].text =
                (IF req.handler = "AddTodoHandler" THEN "Todo added successfully"
                 ELSE IF req.handler = "UpdateTodoHandler" THEN "Todo updated successfully"
                 ELSE "Todo deleted successfully")

C10_Witness ==
    /\ req.handler = "DeleteTodoHandler" /\ req.bindErr = Nil
    /\ call.err = ErrNoRows
    /\ ResponseStatus(resp) = StatusNotFound

\* C11: a failed sql.Open or db.Ping aborts startup: while the handle is nil
\* no route is served and no menu is shown, no Store Access function is ever
\* called with the nil handle, and whenever requests or choices are handled
\* the confirmation has been printed.
C11_FailedConnectAborts ==
    /\ boot.db = NilDB => boot.pc \in {"main", "aborted"}
    /\ boot.db = NilDB => menu.pc = "idle"
    /\ ~boot.nilCalls
    /\ boot.pc \in {"serving", "prompting"} => boot.logged

\* A step of showPrompt that reads a choice.
ReadsChoice == menu.pc = "prompt" /\ menu' # menu

\* The choice read by a step, as fmt.Scan returns it.
Choice == ScanInt(menu'.choice)

\* The last step printed the menu again, in a new frame of showPrompt.
MenuAgain ==
    /\ menu'.pc = "prompt"
    /\ menu'.depth = menu.depth + 1
    /\ Len(menu'.out) >= Len(MenuLines)
    /\ SubSeq(menu'.out, Len(menu'.out) - Len(MenuLines) + 1, Len(menu'.out)) = MenuLines

\* C12: every choice read as a number other than 5 has its action called (1
\* AllList, 2 Add, 4 Delete, nothing of Store Access for a number out of
\* range) and is followed by the menu again; the loop does not end on it.
C12_NumericChoiceDispatchedThenMenu ==
    [][(ReadsChoice /\ Choice.err = Nil /\ Choice.n # 5) =>
        /\ MenuAgain
        /\ Choice.n = 1 => call'.op = "AllList"
        /\ Choice.n = 2 => call'.op = "Add"
        /\ Choice.n = 4 => call'.op = "Delete"
        /\ Choice.n \notin 1..4 => UNCHANGED <<todos, seq, now, call>>]_vars

\* C13: a choice that cannot be read as a number is answered by the invalid
\* input line and the menu again, in a new frame; no Store Access function is
\* called and the loop does not end.
C13_UnreadableChoiceReprompts ==
    [][(ReadsChoice /\ Choice.err # Nil) =>
        /\ MenuAgain
        /\ menu'.out = <<"Invalid input. Please enter a number between 1 and 5.">>
                         \o MenuLines
        /\ UNCHANGED <<todos, seq, now, call>>]_vars

C13_Witness ==
    /\ menu.pc = "prompt" /\ menu.choice = "abc"
    /\ menu.depth >= 3
    /\ todos # {}

\* C14: the step that reads 5 prints Exiting... and returns without calling
\* Store Access; from then on every step is a frame of showPrompt returning,
\* which prints nothing, reads nothing and leaves the store alone, until the
\* outermost frame has returned, after which there is no step at all.
C14_ExitTerminatesTheLoop ==
    [][/\ (ReadsChoice /\ Choice.err = Nil /\ Choice.n = 5) =>
            /\ menu'.out = <<"Exiting...">>
            /\ menu'.pc \in {"returning", "exited"}
            /\ menu'.depth = menu.depth - 1
            /\ UNCHANGED <<todos, seq, now, call>>
       /\ menu.pc \in {"returning", "exited"} =>
            /\ menu'.pc \in {"returning", "exited"}
            /\ menu'.depth < menu.depth
            /\ menu'.pc = "exited" <=> menu'.depth = 0
            /\ menu'.out = <<>>
            /\ menu'.choice = menu.choice
            /\ UNCHANGED <<todos, seq, now, call>>]_vars

C14_Witness ==
    /\ menu.pc = "exited" /\ menu.choice = "5" /\ menu.depth = 0
    /\ call.op = "Delete" /\ call.err = Nil

\* C15: every request gets exactly one c.JSON write, and no write follows an
\* error write.
C15_OneResponsePerRequest ==
    req.handler # "none" =>
        /\ Len(resp) = 1
        /\ \A i, j \in DOMAIN resp : (i < j /\ resp[i].key = "error") => resp[j].key = "error"

\* C16: of an update and a delete of the same existing row in flight together,
\* each one statement, the delete whose statement was run returns nil and the
\* row is absent from then on, whether the update ran before or after it; the
\* update whose statement was run returns nil or sql.ErrNoRows, the latter only
\* after the delete.
C16_UpdateNeverRevivesDeletedRow ==
    /\ (race.del = "done" /\ race.delErr \notin DriverErrs) =>
        /\ race.delErr = Nil
        /\ race.id \notin Ids(todos)
    /\ (race.upd = "done" /\ race.updErr \notin DriverErrs) =>
        /\ race.updErr \in {Nil, ErrNoRows}
        /\ race.updErr = ErrNoRows => (race.del = "done" /\ race.delErr = Nil)
        /\ race.updErr = Nil => (race.del = "done" \/ race.id \in Ids(todos))

C16_Witness ==
    /\ race.upd = "done" /\ race.del = "done"
    /\ race.updErr = ErrNoRows /\ race.delErr = Nil
    /\ todos # {}

\* C17: created_at <= updated_at in every row: Add and Update read the clock
\* for created_at first and for updated_at second, the clock does not go back,
\* and nothing else writes a timestamp.
C17_CreatedNotAfterUpdated ==
    \A r \in todos :
        /\ r.created_at <= r.updated_at
        /\ r.updated_at <= now

C17_Witness ==
    /\ call.op = "Update" /\ call.err = Nil
    /\ \E r \in todos : r.id = call.id /\ r.created_at < r.updated_at

====
